---- MODULE Spec2Model ----
(***************************************************************************)
(* Model of the Modbus RTU session of the Mennekes Amtron RPC bridge       *)
(* (src/src/modbus-client.js, register table in src/src/index.js).         *)
(*                                                                         *)
(* The session is the ModbusClient object.  Its callers are the            *)
(* application (RPC handlers), the keep-alive timer and the 30s            *)
(* health-check timer.  Node runs every callback to its next await, so one *)
(* action is one such run.  Time is abstracted: a pending timer may fire   *)
(* at any moment, a wire exchange may return or fail at any moment (all    *)
(* intervals and the response timeout are configuration).                  *)
(***************************************************************************)
EXTENDS Integers, Sequences, FiniteSets, TLC

(***************************************************************************)
(* Bounds                                                                  *)
(***************************************************************************)
\* config.maxRetries of the modelled session (default 3, configurable)
MaxRetries == 2
\* cap on the pending reconnect timers
MaxReconnectTimers == 2
\* cap on the live health-check interval timers
MaxCheckTimers == 2
\* cap on the pending first-beat timers of the keep-alive
MaxFirstBeatTimers == 1
\* cap on the connect() calls awaiting the serial open
MaxConnecting == 1

(***************************************************************************)
(* Register catalog (the entries of REGISTERS the model uses)              *)
(***************************************************************************)
REGISTERS ==
  [ EVSE_STATE          |-> [address |-> 256,  length |-> 1, type |-> "uint16", access |-> "R"],
    CHARGING_CURRENT_EM |-> [address |-> 770,  length |-> 2, type |-> "float",  access |-> "RW"],
    DURATION_SESSION    |-> [address |-> 2820, length |-> 2, type |-> "uint32", access |-> "R"],
    HEARTBEAT_EM        |-> [address |-> 3328, length |-> 1, type |-> "uint16", access |-> "W"],
    CHARGING_RELEASE_EM |-> [address |-> 3333, length |-> 1, type |-> "uint16", access |-> "RW"],
    SYSTEM_RESTART      |-> [address |-> 3353, length |-> 1, type |-> "uint16", access |-> "W"],
    ACTIVE_ERROR_CODE   |-> [address |-> 3584, length |-> 1, type |-> "uint16", access |-> "R"],
    MASTER_LOST_FALLBACK_STATE
                        |-> [address |-> 3585, length |-> 1, type |-> "uint16", access |-> "R"],
    SWITCHED_PHASES     |-> [address |-> 3586, length |-> 1, type |-> "uint16", access |-> "R"],
    TEMPERATURE         |-> [address |-> 2304, length |-> 2, type |-> "float",  access |-> "R"] ]

\* REGISTERS[registerName] is undefined (falsy) for a name outside the table
HasRegister(registerName) == registerName \in DOMAIN REGISTERS

\* variant: any access string grants the access asked for
AccessIncludes_either(access, letter) == access \in {"R", "W", "RW"}

\* register.access.includes('R') / register.access.includes('W')
AccessIncludes(access, letter) ==
  \/ access = letter
  \/ access = "RW" /\ letter \in {"R", "W"}

\* the keep-alive constant 0x55AA written by sendHeartbeat
HeartbeatValue == 21930

\* startHeartbeat's timers, in ms: the setTimeout of the first keep-alive and
\* the setInterval of the following ones
FirstBeatDelay == 2000

HeartbeatPeriod == 9000

\* MODBUS_CONFIG.HEARTBEAT_INTERVAL: the keep-alive window of the device, in ms
HEARTBEAT_INTERVAL == 10000

(***************************************************************************)
(* 32-bit integer arithmetic of the host language.  The integers of the    *)
(* model are themselves 32 bits wide, so a number that a 32-bit register   *)
(* value can be is carried as the pair <<q, r>> = q * 2^16 + r with        *)
(* 0 <= r < 2^16 (q is negative for a negative number).                    *)
(***************************************************************************)
Pow2(n) == 2 ^ n

\* the pair of a number small enough to be an integer of the model
Num(v) == <<v \div Pow2(16), v % Pow2(16)>>

\* ToInt32: the signed 32-bit value of a number
ToInt32(x) ==
  LET hi == x[1] % Pow2(16)
  IN  <<IF hi >= Pow2(15) THEN hi - Pow2(16) ELSE hi, x[2]>>

\* the unsigned 32-bit pattern of a number
ToUint32(x) == <<x[1] % Pow2(16), x[2]>>

RECURSIVE BitOr(_, _, _)
\* bitwise OR of two unsigned patterns over n bits
BitOr(a, b, n) ==
  IF n = 0 THEN 0
  ELSE LET bit == IF (a % 2 = 1) \/ (b % 2 = 1) THEN 1 ELSE 0
       IN  bit + 2 * BitOr(a \div 2, b \div 2, n - 1)

\* a | b on 32-bit operands
JsOr(a, b) ==
  ToInt32(<<BitOr(ToUint32(a)[1], ToUint32(b)[1], 16),
            BitOr(ToUint32(a)[2], ToUint32(b)[2], 16)>>)

\* a << 16
JsShl16(a) == ToInt32(<<ToUint32(a)[2], 0>>)

\* (a >> 16) & 0xFFFF
JsShr16Low(a) == ToUint32(ToInt32(a))[1]

\* a & 0xFFFF
JsLow16(a) == ToUint32(ToInt32(a))[2]

\* buffer.readInt16BE of a 16-bit word
Int16Of(w) == IF w >= Pow2(15) THEN w - Pow2(16) ELSE w

(***************************************************************************)
(* IEEE-754 single precision, for the non-negative integers the model      *)
(* writes (a float is carried as its 32-bit pattern)                       *)
(***************************************************************************)
RECURSIVE Log2Floor(_)
Log2Floor(v) == IF v <= 1 THEN 0 ELSE 1 + Log2Floor(v \div 2)

\* the number NaN, carried as a tag outside the numbers the model draws
NaN == -16777216

\* the bit pattern buffer.writeFloatBE stores for the integer v, 0 <= v < 2^24,
\* and for NaN (0x7FC00000)
FloatBits(v) ==
  IF v = NaN THEN 32704 * Pow2(16)
  ELSE IF v = 0 THEN 0
  ELSE LET e == Log2Floor(v)
       IN  (127 + e) * Pow2(23) + (v - Pow2(e)) * Pow2(23 - e)

(***************************************************************************)
(* Value codec                                                             *)
(***************************************************************************)
\* whitespace String.prototype.trim removes, among 7-bit characters
Whitespace == {9, 10, 11, 12, 13, 32}

RECURSIVE TrimStart(_)
TrimStart(s) ==
  IF s # <<>> /\ Head(s) \in Whitespace THEN TrimStart(Tail(s)) ELSE s

RECURSIVE TrimEnd(_)
TrimEnd(s) ==
  IF s # <<>> /\ s[Len(s)] \in Whitespace
  THEN TrimEnd(SubSeq(s, 1, Len(s) - 1)) ELSE s

RECURSIVE AsciiBytes_noSwap(_)
\* variant: the bytes of the words in buffer order
AsciiBytes_noSwap(words) ==
  IF words = <<>> THEN <<>>
  ELSE <<Head(words) \div 256, Head(words) % 256>> \o AsciiBytes_noSwap(Tail(words))

RECURSIVE AsciiBytes(_)
\* the swappedBuffer of the ascii case: of every word (buffer[i] its high
\* byte, buffer[i + 1] its low byte) the low byte first
AsciiBytes(words) ==
  IF words = <<>> THEN <<>>
  ELSE <<Head(words) % 256, Head(words) \div 256>> \o AsciiBytes(Tail(words))

\* swappedBuffer.toString('ascii').replace(/\0/g, '').trim(): a text is the
\* sequence of its character codes ('ascii' decoding drops the top bit)
AsciiText(bytes) ==
  LET chars == [i \in 1..Len(bytes) |-> bytes[i] % 128]
  IN  TrimEnd(TrimStart(SelectSeq(chars, LAMBDA ch : ch # 0)))

\* parseRegisterValue: words is the response buffer as 16-bit words,
\* words[1] = buffer.readUInt16BE(0), words[2] = buffer.readUInt16BE(2).
\* A uint32 or int32 result is a pair <<q, r>>, a float result is its 32-bit
\* pattern.
parseRegisterValue(register, words) ==
  CASE register.type = "uint16" -> words[1]
    [] register.type = "uint32" -> JsOr(JsShl16(Num(words[2])), Num(words[1]))
    [] register.type = "int16"  -> Int16Of(words[1])
    [] register.type = "int32"  -> JsOr(JsShl16(Num(Int16Of(words[2]))),
                                        Num(Int16Of(words[1])))
    [] register.type = "float"  -> words[1] * Pow2(16) + words[2]
    [] register.type = "ascii"  -> AsciiText(AsciiBytes(words))

\* encodeRegisterValue throws (RangeError of the Buffer write) exactly when
\* this is FALSE
CanEncode(register, value) ==
  CASE register.type = "uint16" -> value \in 0..65535
    [] register.type = "uint32" -> TRUE
    [] register.type = "int16"  -> value \in -32768..32767
    [] register.type = "int32"  -> /\ JsLow16(value) <= 32767
                                   /\ JsShr16Low(value) <= 32767
    [] register.type = "float"  -> TRUE
    [] OTHER -> FALSE

\* encodeRegisterValue: the 16-bit words handed to the transport (the value
\* of a uint32 or int32 register is a pair <<q, r>>)
encodeRegisterValue(register, value) ==
  CASE register.type = "uint16" -> <<value>>
    [] register.type = "uint32" -> <<JsLow16(value), JsShr16Low(value)>>
    [] register.type = "int16"  -> <<value % Pow2(16)>>
    [] register.type = "int32"  -> <<JsLow16(value), JsShr16Low(value)>>
    [] register.type = "float"  -> <<FloatBits(value) \div Pow2(16), FloatBits(value) % Pow2(16)>>

(***************************************************************************)
(* Inputs of the environment                                               *)
(***************************************************************************)
\* the callers of readRegister / writeRegister: an application request, the
\* keep-alive tick (sendHeartbeat) and the health-check tick
Callers == {"app", "hb", "hc"}

\* requests of the application
AppRequests ==
  { [op |-> "read",  reg |-> "EVSE_STATE",          value |-> 0],
    [op |-> "read",  reg |-> "CHARGING_CURRENT_EM", value |-> 0],
    [op |-> "read",  reg |-> "HEARTBEAT_EM",        value |-> 0],
    [op |-> "read",  reg |-> "NO_SUCH_REGISTER",    value |-> 0],
    [op |-> "write", reg |-> "CHARGING_RELEASE_EM", value |-> 1],
    [op |-> "write", reg |-> "CHARGING_RELEASE_EM", value |-> 70000],
    [op |-> "write", reg |-> "CHARGING_CURRENT_EM", value |-> 16],
    [op |-> "write", reg |-> "EVSE_STATE",          value |-> 1],
    [op |-> "write", reg |-> "NO_SUCH_REGISTER",    value |-> 1] }

\* responses the device may give to a read of n words
ReadData(n) ==
  IF n = 1 THEN { <<5>>, <<32769>> }
  ELSE { <<0, 16800>>, <<16800, 0>> }

\* error messages of a failed wire exchange (transport library)
WireErrors == {"Timed Out", "Port Not Open", "CRC error"}

\* MODBUS_CONFIG.MIN_CHARGING_CURRENT and MAX_CHARGING_CURRENT
MIN_CHARGING_CURRENT == 6

MAX_CHARGING_CURRENT == 32

\* a value of a JSON-RPC parameter: its typeof, and the number it converts
\* to in a comparison with a number and in buffer.writeFloatBE
Undefined == [type |-> "undefined", text |-> "", num |-> NaN]

JsNumber(n) == [type |-> "number", text |-> "", num |-> n]

JsString(text, n) == [type |-> "string", text |-> text, num |-> n]

ToNumber(v) == v.num

\* a < b of two values one of which is a number: false when either side
\* converts to NaN
JsLess(a, b) == ToNumber(a) # NaN /\ ToNumber(b) # NaN /\ ToNumber(a) < ToNumber(b)

\* the value counts as true in v || 6
Truthy(v) ==
  CASE v.type = "number" -> v.num # 0 /\ v.num # NaN
    [] v.type = "string" -> v.text # ""
    [] OTHER -> FALSE

\* the charging-control methods of the RPC server that set the current
RpcMethods == {"setChargingCurrent", "startCharging", "resumeCharging"}

\* values of the ampere / current parameter of a request
RpcParams ==
  { Undefined, JsNumber(0), JsNumber(5), JsNumber(6), JsNumber(16),
    JsNumber(32), JsNumber(33), JsString("16", 16), JsString("40", 40),
    JsString("abc", NaN) }

(***************************************************************************)
(* State                                                                   *)
(***************************************************************************)
VARIABLES
  isConnected,             \* this.isConnected
  reconnecting,            \* this.reconnecting
  heartbeatInterval,       \* this.heartbeatInterval is not null
  connectionCheckInterval, \* this.connectionCheckInterval is not null
  isOpen,                  \* this.client.isOpen
  reconnectTimers,         \* pending setTimeout callbacks of scheduleReconnect
  checkTimers,             \* live setInterval timers of startConnectionMonitoring
  firstBeatTimers,         \* pending 2s setTimeout callbacks of startHeartbeat
  connecting,              \* connect() calls awaiting connectRTU
  closing,                 \* a disconnect() call awaits client.close()
  calls,                   \* per caller: its readRegister/writeRegister call
  emitted,                 \* events emitted by the last step, in order
  many,                    \* the readMultipleRegisters call of the application
  codec,                   \* a value on its way through the value codec
  alreadyClosed,           \* the last step was a disconnect() that found the
                           \* session disconnected and the handle closed
  ctl                      \* the charging-control request of the RPC client

vars == <<isConnected, reconnecting, heartbeatInterval, connectionCheckInterval,
          isOpen, reconnectTimers, checkTimers, firstBeatTimers,
          connecting, closing, calls, emitted, many, codec, alreadyClosed, ctl>>

\* no call on the transport.  Fields: fn the method of the transport (the
\* Modbus function), address its first argument, data its second: the
\* word count of a read, the word(s) of a write
NoWire == [fn |-> "none", address |-> 0, data |-> <<>>]

\* a caller with no call.  Fields of a call (wire: the transport call in
\* flight while pc = wire):
\*   pc       idle    no call
\*            wire    awaiting the transport (a wire operation in flight)
\*            delay   awaiting the 500ms retry delay
\*            ok      returned (result), failed  threw (err)
\*   op, reg, value   the arguments, retry  the retryCount argument
\*   err      the error thrown to the caller, result  the value returned
\*   observations kept for the application's call:
\*   refused  an attempt found the session not connected
\*   lastErr  the error raised in the last attempt made
\*   resp     the words of the response the transport returned
\*   lost     the call ran the connection-lost branch
NoCall ==
  [pc |-> "idle", op |-> "none", reg |-> "none", value |-> 0, retry |-> 0,
   refused |-> FALSE, lastErr |-> "none", err |-> "none", resp |-> <<>>,
   result |-> <<>>, lost |-> FALSE, wire |-> NoWire]

NewCall(req) == [NoCall EXCEPT !.op = req.op, !.reg = req.reg, !.value = req.value]

\* the null stored for a read that failed; a value read is stored as <<value>>
null == <<>>

\* const results = {}
EmptyObject == [n \in {} |-> null]

\* no readMultipleRegisters call.  Fields of a call:
\*   pc       idle, running, done (returned results), threw
\*   names    the argument, idx  the position of the loop in it
\*   results  the results object
\*   call     the readRegister call of names[idx]
\*   reads    observation: for every read made, in order, its name, whether
\*            it returned, and the words of the response it decoded
\*   method   the controller method that made the call (none: the
\*            application itself), returned  what that method returned
NoBatch ==
  [pc |-> "idle", names |-> <<>>, idx |-> 1, results |-> EmptyObject,
   call |-> NoCall, reads |-> <<>>, method |-> "none", returned |-> <<>>]

\* no value in the codec.  Fields:
\*   pc       idle, input (value to encode), encoded (words), decoded, threw;
\*            received (words of a response), parsed
\*   register the descriptor handed to the codec (type and length)
\*   value    the value given to encodeRegisterValue
\*   words    the words it returned, decoded  what parseRegisterValue made
\*            of them
NoCodec ==
  [pc |-> "idle", register |-> [type |-> "none", length |-> 0], value |-> 0,
   words |-> <<>>, decoded |-> <<>>]

\* no charging-control request.  Fields:
\*   pc       idle; current (awaiting the write of CHARGING_CURRENT_EM),
\*            wait (awaiting delay(100)), release (awaiting the write of
\*            CHARGING_RELEASE_EM); done, failed
\*   method   the RPC method, current  the value handed to the controller
\*   call     the writeRegister call in progress
\*   wrote    observation: for every write handed to the transport, in
\*            order, its register, value and words
\*   acked    observation: the registers whose write has returned, in order
\*   err      the error the request failed with
NoControl ==
  [pc |-> "idle", method |-> "none", current |-> Undefined, call |-> NoCall,
   wrote |-> <<>>, acked |-> <<>>, err |-> "none"]

\* the part of the session a register call can change
Session ==
  [isConnected |-> isConnected, reconnecting |-> reconnecting,
   reconnectTimers |-> reconnectTimers, emitted |-> <<>>]


(***************************************************************************)
(* Session operations, as functions of the call and the session            *)
(***************************************************************************)
\* scheduleReconnect: a no-op while the reconnecting flag is set, otherwise
\* sets the flag and arms one setTimeout(connect, reconnectInterval)
scheduleReconnect(s) ==
  IF s.reconnecting THEN s
  ELSE [s EXCEPT !.reconnecting = TRUE, !.reconnectTimers = @ + 1]

\* variant: one more retry is taken
ShouldRetry_offByOne(retryCount) == retryCount <= MaxRetries

\* the retry test of the catch block: retryCount < this.config.maxRetries
ShouldRetry(retryCount) == retryCount < MaxRetries

\* variant: only the timeout is taken for a lost connection
IsConnectionError_timeoutOnly(e) == e = "Timed Out"

\* error.message.includes('Port Not Open') || error.message.includes('Timed Out')
IsConnectionError(e) == e \in {"Port Not Open", "Timed Out"}

\* variant: a call that has run out of retries throws a summary error
ThrownError_wrapped(call, e) == "Max retries exceeded"

\* the error a call that has run out of retries throws: the caught one
ThrownError(call, e) == e

\* the session after the "connection might be lost" branch
connectionLost(s) ==
  scheduleReconnect([s EXCEPT !.isConnected = FALSE,
                              !.emitted = Append(@, "connectionLost")])

\* variant: the connection-lost branch runs before the retry test, at every
\* port-closed or timeout error
catchError_eager(call, s, e) ==
  LET s1 == IF IsConnectionError(e) THEN connectionLost(s) ELSE s
  IN  IF ShouldRetry(call.retry)
      THEN [call |-> [call EXCEPT !.pc = "delay", !.wire = NoWire], s |-> s1]
      ELSE [call |-> [call EXCEPT !.pc = "failed", !.wire = NoWire,
                                  !.err = ThrownError(call, e),
                                  !.lost = IsConnectionError(e)],
            s    |-> s1]

\* the catch block of readRegister / writeRegister for the caught error e:
\* retry after the delay while retries remain; otherwise, for a port-closed
\* or timeout error, mark the session lost, and throw
catchError(call, s, e) ==
  IF ShouldRetry(call.retry)
  THEN [call |-> [call EXCEPT !.pc = "delay", !.wire = NoWire], s |-> s]
  ELSE [call |-> [call EXCEPT !.pc = "failed", !.wire = NoWire,
                              !.err = ThrownError(call, e),
                              !.lost = IsConnectionError(e)],
        s    |-> IF IsConnectionError(e) THEN connectionLost(s) ELSE s]

\* a throw outside the try block: no retry, nothing else happens
throwOutside(call, s, e) ==
  [call |-> [call EXCEPT !.pc = "failed", !.err = e], s |-> s]

\* variant: every write is a multi-register write
wireOperation_multi(call) ==
  LET register == REGISTERS[call.reg]
  IN  IF call.op = "read"
      THEN [fn |-> "readHoldingRegisters", address |-> register.address,
            data |-> <<register.length>>]
      ELSE [fn |-> "writeRegisters", address |-> register.address,
            data |-> encodeRegisterValue(register, call.value)]

\* the transport call of an attempt: readHoldingRegisters(address, length)
\* for a read; for a write, of the encoded buffer, writeRegister(address,
\* buffer[0]) when register.length === 1, else writeRegisters(address, buffer)
wireOperation(call) ==
  LET register == REGISTERS[call.reg]
      buffer   == encodeRegisterValue(register, call.value)
  IN  IF call.op = "read"
      THEN [fn |-> "readHoldingRegisters", address |-> register.address,
            data |-> <<register.length>>]
      ELSE IF register.length = 1
      THEN [fn |-> "writeRegister", address |-> register.address,
            data |-> <<buffer[1]>>]
      ELSE [fn |-> "writeRegisters", address |-> register.address,
            data |-> buffer]

\* the transport call is made: a wire operation of this call is in flight
dispatch(call, s) ==
  [call |-> [call EXCEPT !.pc = "wire", !.wire = wireOperation(call)], s |-> s]

\* variant: the attempt goes to the transport without the connection test
notConnected_dispatched(call, s) == dispatch(call, s)

\* the attempt is refused inside the try block because the session is not
\* connected: the catch block runs with that error
notConnected(call, s) ==
  catchError([call EXCEPT !.refused = TRUE,
                          !.lastErr = "Not connected to Modbus device"],
             s, "Not connected to Modbus device")

\* variant: the catalog lookup is checked inside the try block
readRegister_lateLookup(call, s) ==
  IF ~HasRegister(call.reg)
  THEN catchError([call EXCEPT !.lastErr = "Unknown register"], s, "Unknown register")
  ELSE IF ~AccessIncludes(REGISTERS[call.reg].access, "R")
  THEN throwOutside(call, s, "not readable")
  ELSE IF ~s.isConnected
  THEN notConnected(call, s)
  ELSE dispatch(call, s)

\* readRegister(registerName, retryCount) up to its first await
readRegister(call, s) ==
  IF ~HasRegister(call.reg)
  THEN throwOutside(call, s, "Unknown register")
  ELSE IF ~AccessIncludes(REGISTERS[call.reg].access, "R")
  THEN throwOutside(call, s, "not readable")
  ELSE IF ~s.isConnected
  THEN notConnected(call, s)
  ELSE dispatch(call, s)

\* writeRegister(registerName, value, retryCount) up to its first await
writeRegister(call, s) ==
  IF ~HasRegister(call.reg)
  THEN throwOutside(call, s, "Unknown register")
  ELSE IF ~AccessIncludes(REGISTERS[call.reg].access, "W")
  THEN throwOutside(call, s, "not writable")
  ELSE IF ~s.isConnected
  THEN notConnected(call, s)
  ELSE IF ~CanEncode(REGISTERS[call.reg], call.value)
  THEN catchError([call EXCEPT !.lastErr = "out of range"], s, "out of range")
  ELSE dispatch(call, s)

\* one attempt of the call, by its operation
attempt(call, s) ==
  IF call.op = "read" THEN readRegister(call, s) ELSE writeRegister(call, s)

\* the transport returned: readRegister decodes and returns the value,
\* writeRegister returns nothing
wireReturned(call, s, words) ==
  [call |-> [call EXCEPT !.pc = "ok", !.wire = NoWire,
                         !.resp = IF call.op = "read" THEN words ELSE <<>>,
                         !.result = IF call.op = "read"
                                    THEN <<parseRegisterValue(REGISTERS[call.reg], words)>>
                                    ELSE <<>>],
   s |-> s]

\* variant: the failure of the keep-alive write is thrown out of the tick
settle_rethrow(c, out) ==
  IF out.call.pc \notin {"ok", "failed"}
  THEN [call |-> [out.call EXCEPT !.lastErr = "none",
                                  !.refused = IF c = "app" THEN @ ELSE FALSE],
        s |-> out.s]
  ELSE IF c = "app" THEN out
  ELSE IF c = "hc" /\ out.call.pc = "failed"
  THEN [call |-> NoCall, s |-> connectionLost(out.s)]
  ELSE IF c = "hb" /\ out.call.pc = "failed"
  THEN out
  ELSE [call |-> NoCall, s |-> out.s]

\* the caller's continuation once its call has returned or thrown:
\*   sendHeartbeat logs either outcome;
\*   the health-check callback, on a failure, marks the session
\*   disconnected, emits connectionLost and calls scheduleReconnect;
\*   the application keeps the outcome.
\* The error of an attempt that is retried is not kept.
settle(c, out) ==
  IF out.call.pc \notin {"ok", "failed"}
  THEN [call |-> [out.call EXCEPT !.lastErr = "none",
                                  !.refused = IF c = "app" THEN @ ELSE FALSE],
        s |-> out.s]
  ELSE IF c = "app" THEN out
  ELSE IF c = "hc" /\ out.call.pc = "failed"
  THEN [call |-> NoCall, s |-> connectionLost(out.s)]
  ELSE [call |-> NoCall, s |-> out.s]

\* the step's result becomes the next state of the call and of the session
Apply(c, out) ==
  /\ out.s.reconnectTimers <= MaxReconnectTimers
  /\ calls' = [calls EXCEPT ![c] = out.call]
  /\ isConnected' = out.s.isConnected
  /\ reconnecting' = out.s.reconnecting
  /\ reconnectTimers' = out.s.reconnectTimers
  /\ emitted' = out.s.emitted

(***************************************************************************)
(* Initial state: a constructed ModbusClient                               *)
(***************************************************************************)
Init ==
  /\ isConnected = FALSE
  /\ reconnecting = FALSE
  /\ heartbeatInterval = FALSE
  /\ connectionCheckInterval = FALSE
  /\ isOpen = FALSE
  /\ reconnectTimers = 0
  /\ checkTimers = 0
  /\ firstBeatTimers = 0
  /\ connecting = 0
  /\ closing = FALSE
  /\ calls = [c \in Callers |-> NoCall]
  /\ emitted = <<>>
  /\ many = NoBatch
  /\ codec = NoCodec
  /\ alreadyClosed = FALSE
  /\ ctl = NoControl

\* the caller has a call that has not returned yet
Busy(c) == calls[c].pc \in {"wire", "delay"}

\* the write sendHeartbeat makes
HeartbeatRequest == [op |-> "write", reg |-> "HEARTBEAT_EM", value |-> HeartbeatValue]

\* the read the health check makes
HealthCheckRequest == [op |-> "read", reg |-> "EVSE_STATE", value |-> 0]

(***************************************************************************)
(* Register calls                                                          *)
(***************************************************************************)
\* the application calls readRegister or writeRegister
AppCall(req) ==
  /\ ~Busy("app")
  /\ Apply("app", settle("app", attempt(NewCall(req), Session)))
  /\ UNCHANGED <<heartbeatInterval, connectionCheckInterval, isOpen,
                 checkTimers, firstBeatTimers, connecting,
                 closing>>
  /\ alreadyClosed' = FALSE
  /\ UNCHANGED <<many, codec, ctl>>

\* a tick of the recurring 9s keep-alive timer: sendHeartbeat
HeartbeatTick ==
  /\ heartbeatInterval
  /\ ~Busy("hb")
  /\ Apply("hb", settle("hb", attempt(NewCall(HeartbeatRequest), Session)))
  /\ UNCHANGED <<heartbeatInterval, connectionCheckInterval, isOpen,
                 checkTimers, firstBeatTimers, connecting,
                 closing>>
  /\ alreadyClosed' = FALSE
  /\ UNCHANGED <<many, codec, ctl>>

\* the first keep-alive, 2s after startHeartbeat: sendHeartbeat
FirstBeatFires ==
  /\ firstBeatTimers > 0
  /\ ~Busy("hb")
  /\ firstBeatTimers' = firstBeatTimers - 1
  /\ Apply("hb", settle("hb", attempt(NewCall(HeartbeatRequest), Session)))
  /\ UNCHANGED <<heartbeatInterval, connectionCheckInterval, isOpen,
                 checkTimers, connecting, closing>>
  /\ alreadyClosed' = FALSE
  /\ UNCHANGED <<many, codec, ctl>>

\* a tick of a 30s health-check timer: readRegister('EVSE_STATE')
HealthCheckTick ==
  /\ checkTimers > 0
  /\ ~Busy("hc")
  /\ Apply("hc", settle("hc", attempt(NewCall(HealthCheckRequest), Session)))
  /\ UNCHANGED <<heartbeatInterval, connectionCheckInterval, isOpen,
                 checkTimers, firstBeatTimers, connecting,
                 closing>>
  /\ alreadyClosed' = FALSE
  /\ UNCHANGED <<many, codec, ctl>>

\* the transport returns the response of the wire operation of caller c
WireReturns(c) ==
  /\ calls[c].pc = "wire"
  /\ \E words \in ReadData(REGISTERS[calls[c].reg].length) :
       Apply(c, settle(c, wireReturned(calls[c], Session, words)))
  /\ UNCHANGED <<heartbeatInterval, connectionCheckInterval, isOpen,
                 checkTimers, firstBeatTimers, connecting,
                 closing>>
  /\ alreadyClosed' = FALSE
  /\ UNCHANGED <<many, codec, ctl>>

\* the wire operation of caller c fails with error e
WireFails(c, e) ==
  /\ calls[c].pc = "wire"
  /\ Apply(c, settle(c, catchError([calls[c] EXCEPT !.lastErr = e], Session, e)))
  /\ UNCHANGED <<heartbeatInterval, connectionCheckInterval, isOpen,
                 checkTimers, firstBeatTimers, connecting,
                 closing>>
  /\ alreadyClosed' = FALSE
  /\ UNCHANGED <<many, codec, ctl>>

\* the 500ms retry delay of caller c has elapsed: the call is re-invoked
\* with retryCount + 1
RetryDelayElapses(c) ==
  /\ calls[c].pc = "delay"
  /\ Apply(c, settle(c, attempt([calls[c] EXCEPT !.retry = @ + 1], Session)))
  /\ UNCHANGED <<heartbeatInterval, connectionCheckInterval, isOpen,
                 checkTimers, firstBeatTimers, connecting,
                 closing>>
  /\ alreadyClosed' = FALSE
  /\ UNCHANGED <<many, codec, ctl>>

(***************************************************************************)
(* readMultipleRegisters                                                   *)
(***************************************************************************)
\* argument lists of readMultipleRegisters
ReadManyInputs ==
  { <<>>,
    <<"EVSE_STATE", "CHARGING_CURRENT_EM">>,
    <<"NO_SUCH_REGISTER", "EVSE_STATE">>,
    <<"HEARTBEAT_EM", "DURATION_SESSION">>,
    <<"EVSE_STATE", "EVSE_STATE">> }

\* the readRegister call the loop makes for a name
ReadRequest(name) == [op |-> "read", reg |-> name, value |-> 0]

\* variant: the loop moves on by two names after a read that returned
readManyReturned_skip(m, call) ==
  [m EXCEPT !.results = (call.reg :> call.result) @@ @,
            !.reads = Append(@, [name |-> call.reg, ok |-> TRUE, resp |-> call.resp]),
            !.idx = @ + 2,
            !.call = NoCall]

\* results[name] = await this.readRegister(name), the read having returned
readManyReturned(m, call) ==
  [m EXCEPT !.results = (call.reg :> call.result) @@ @,
            !.reads = Append(@, [name |-> call.reg, ok |-> TRUE, resp |-> call.resp]),
            !.idx = @ + 1,
            !.call = NoCall]

\* variant: the first read that fails ends the loop
readManyCatch_abort(m, call) ==
  [m EXCEPT !.results = (call.reg :> null) @@ @,
            !.reads = Append(@, [name |-> call.reg, ok |-> FALSE, resp |-> <<>>]),
            !.idx = Len(m.names) + 1,
            !.call = NoCall]

\* the catch block of the loop: results[name] = null
readManyCatch(m, call) ==
  [m EXCEPT !.results = (call.reg :> null) @@ @,
            !.reads = Append(@, [name |-> call.reg, ok |-> FALSE, resp |-> <<>>]),
            !.idx = @ + 1,
            !.call = NoCall]

\* the register names getDiagnostics reads
DiagnosticsNames ==
  <<"ACTIVE_ERROR_CODE", "MASTER_LOST_FALLBACK_STATE", "SWITCHED_PHASES",
    "TEMPERATURE">>

\* the object getDiagnostics returns for the results diag of its batch (a
\* field holds <<value>>; a result is <<value>> or null)
getDiagnostics(diag) ==
  [activeErrorCode    |-> diag["ACTIVE_ERROR_CODE"],
   hasError           |-> <<diag["ACTIVE_ERROR_CODE"] # <<0>>>>,
   masterLostFallback |-> <<diag["MASTER_LOST_FALLBACK_STATE"] = <<1>>>>,
   switchedPhases     |-> diag["SWITCHED_PHASES"],
   temperature        |-> diag["TEMPERATURE"]]

\* the batch has returned: the controller method that made it returns
batchReturned(m) ==
  [m EXCEPT !.pc = "done",
            !.returned = IF m.method = "getDiagnostics"
                         THEN <<getDiagnostics(m.results)>> ELSE <<>>]

RECURSIVE readMultipleRegisters(_, _)
\* the loop of readMultipleRegisters from the outcome out of a step of the
\* read of names[idx], up to its next await of the transport or of a retry
\* delay, or to its return
readMultipleRegisters(m, out) ==
  IF out.call.pc \in {"wire", "delay"}
  THEN [many |-> [m EXCEPT !.call = [out.call EXCEPT !.lastErr = "none",
                                                     !.refused = FALSE]],
        s    |-> out.s]
  ELSE LET m1 == IF out.call.pc = "ok"
                 THEN readManyReturned(m, out.call)
                 ELSE readManyCatch(m, out.call)
       IN  IF m1.idx > Len(m1.names)
           THEN [many |-> batchReturned(m1), s |-> out.s]
           ELSE readMultipleRegisters(
                  m1, readRegister(NewCall(ReadRequest(m1.names[m1.idx])), out.s))

\* the step's result becomes the next state of the batch and of the session
ApplyMany(out) ==
  /\ out.s.reconnectTimers <= MaxReconnectTimers
  /\ many' = out.many
  /\ isConnected' = out.s.isConnected
  /\ reconnecting' = out.s.reconnecting
  /\ reconnectTimers' = out.s.reconnectTimers
  /\ emitted' = out.s.emitted

\* the application calls readMultipleRegisters(names)
ReadManyCall(names) ==
  /\ many.pc # "running"
  /\ LET m == [NoBatch EXCEPT !.pc = "running", !.names = names]
     IN  IF names = <<>>
         THEN ApplyMany([many |-> batchReturned(m), s |-> Session])
         ELSE ApplyMany(readMultipleRegisters(
                m, readRegister(NewCall(ReadRequest(names[1])), Session)))
  /\ alreadyClosed' = FALSE
  /\ UNCHANGED <<heartbeatInterval, connectionCheckInterval, isOpen,
                 checkTimers, firstBeatTimers, connecting, closing, calls, codec, ctl>>

\* the application (or the RPC server) calls getDiagnostics()
GetDiagnostics ==
  /\ many.pc # "running"
  /\ LET m == [NoBatch EXCEPT !.pc = "running", !.names = DiagnosticsNames,
                              !.method = "getDiagnostics"]
     IN  ApplyMany(readMultipleRegisters(
           m, readRegister(NewCall(ReadRequest(DiagnosticsNames[1])), Session)))
  /\ alreadyClosed' = FALSE
  /\ UNCHANGED <<heartbeatInterval, connectionCheckInterval, isOpen,
                 checkTimers, firstBeatTimers, connecting, closing, calls, codec, ctl>>

\* the transport returns the response of the batch's wire operation
ManyWireReturns ==
  /\ many.call.pc = "wire"
  /\ \E words \in ReadData(REGISTERS[many.call.reg].length) :
       ApplyMany(readMultipleRegisters(many, wireReturned(many.call, Session, words)))
  /\ alreadyClosed' = FALSE
  /\ UNCHANGED <<heartbeatInterval, connectionCheckInterval, isOpen,
                 checkTimers, firstBeatTimers, connecting, closing, calls, codec, ctl>>

\* the batch's wire operation fails with error e
ManyWireFails(e) ==
  /\ many.call.pc = "wire"
  /\ ApplyMany(readMultipleRegisters(
       many, catchError([many.call EXCEPT !.lastErr = e], Session, e)))
  /\ alreadyClosed' = FALSE
  /\ UNCHANGED <<heartbeatInterval, connectionCheckInterval, isOpen,
                 checkTimers, firstBeatTimers, connecting, closing, calls, codec, ctl>>

\* the 500ms retry delay of the batch's read has elapsed
ManyRetryDelayElapses ==
  /\ many.call.pc = "delay"
  /\ ApplyMany(readMultipleRegisters(
       many, readRegister([many.call EXCEPT !.retry = @ + 1], Session)))
  /\ alreadyClosed' = FALSE
  /\ UNCHANGED <<heartbeatInterval, connectionCheckInterval, isOpen,
                 checkTimers, firstBeatTimers, connecting, closing, calls, codec, ctl>>

(***************************************************************************)
(* Charging control: setChargingCurrent, startCharging, resumeCharging      *)
(***************************************************************************)
\* the controller from the outcome out of a step of its writeRegister call,
\* up to its next await or to its return: a write handed to the transport
\* is recorded; a failure is rethrown by every catch block on the way; after
\* the write of the current startCharging awaits delay(100), the other two
\* methods return; after the write of the release startCharging returns
controlStep(k, out) ==
  IF out.call.pc = "wire"
  THEN [ctl |-> [k EXCEPT !.call = [out.call EXCEPT !.lastErr = "none",
                                                    !.refused = FALSE],
                          !.wrote = Append(@,
                            [reg   |-> out.call.reg,
                             value |-> out.call.value,
                             words |-> encodeRegisterValue(REGISTERS[out.call.reg],
                                                           out.call.value)])],
        s   |-> out.s]
  ELSE IF out.call.pc = "delay"
  THEN [ctl |-> [k EXCEPT !.call = [out.call EXCEPT !.lastErr = "none",
                                                    !.refused = FALSE]],
        s   |-> out.s]
  ELSE IF out.call.pc = "failed"
  THEN [ctl |-> [k EXCEPT !.pc = "failed", !.err = out.call.err, !.call = NoCall],
        s   |-> out.s]
  ELSE IF k.pc = "current" /\ k.method = "startCharging"
  THEN [ctl |-> [k EXCEPT !.pc = "wait", !.call = NoCall,
                          !.acked = Append(@, out.call.reg)],
        s   |-> out.s]
  ELSE [ctl |-> [k EXCEPT !.pc = "done", !.call = NoCall,
                          !.acked = Append(@, out.call.reg)],
        s   |-> out.s]

\* setChargingCurrent(ampere) up to its first await: the range test, then
\* writeRegister('CHARGING_CURRENT_EM', ampere)
setChargingCurrent(k, s) ==
  IF \/ JsLess(k.current, JsNumber(MIN_CHARGING_CURRENT))
     \/ JsLess(JsNumber(MAX_CHARGING_CURRENT), k.current)
  THEN [ctl |-> [k EXCEPT !.pc = "failed", !.err = "Current must be between"],
        s   |-> s]
  ELSE controlStep([k EXCEPT !.pc = "current"],
                   writeRegister(NewCall([op |-> "write", reg |-> "CHARGING_CURRENT_EM",
                                          value |-> ToNumber(k.current)]), s))

\* the step's result becomes the next state of the request and of the session
ApplyControl(out) ==
  /\ out.s.reconnectTimers <= MaxReconnectTimers
  /\ ctl' = out.ctl
  /\ isConnected' = out.s.isConnected
  /\ reconnecting' = out.s.reconnecting
  /\ reconnectTimers' = out.s.reconnectTimers
  /\ emitted' = out.s.emitted

\* an RPC request of one of the three methods: handleSetChargingCurrent
\* refuses a parameter that is not a number, handleStartCharging and
\* handleResumeCharging pass params?.current || 6; each method of the
\* controller begins with setChargingCurrent
RpcCall(method, param) ==
  /\ ctl.pc \notin {"current", "wait", "release"}
  /\ LET current == IF method = "setChargingCurrent" \/ Truthy(param)
                    THEN param ELSE JsNumber(6)
         k == [NoControl EXCEPT !.method = method, !.current = current]
     IN  IF method = "setChargingCurrent" /\ param.type # "number"
         THEN ApplyControl([ctl |-> [k EXCEPT !.pc = "failed",
                                              !.err = "must be a number"],
                            s   |-> Session])
         ELSE ApplyControl(setChargingCurrent(k, Session))
  /\ alreadyClosed' = FALSE
  /\ UNCHANGED <<heartbeatInterval, connectionCheckInterval, isOpen,
                 checkTimers, firstBeatTimers, connecting, closing, calls,
                 many, codec>>

\* the transport returns from the write of the request
ControlWireReturns ==
  /\ ctl.call.pc = "wire"
  /\ ApplyControl(controlStep(ctl, wireReturned(ctl.call, Session, <<>>)))
  /\ alreadyClosed' = FALSE
  /\ UNCHANGED <<heartbeatInterval, connectionCheckInterval, isOpen,
                 checkTimers, firstBeatTimers, connecting, closing, calls,
                 many, codec>>

\* the write of the request fails at the wire with error e
ControlWireFails(e) ==
  /\ ctl.call.pc = "wire"
  /\ ApplyControl(controlStep(
       ctl, catchError([ctl.call EXCEPT !.lastErr = e], Session, e)))
  /\ alreadyClosed' = FALSE
  /\ UNCHANGED <<heartbeatInterval, connectionCheckInterval, isOpen,
                 checkTimers, firstBeatTimers, connecting, closing, calls,
                 many, codec>>

\* the 500ms retry delay of the request's write has elapsed
ControlRetryDelayElapses ==
  /\ ctl.call.pc = "delay"
  /\ ApplyControl(controlStep(
       ctl, writeRegister([ctl.call EXCEPT !.retry = @ + 1], Session)))
  /\ alreadyClosed' = FALSE
  /\ UNCHANGED <<heartbeatInterval, connectionCheckInterval, isOpen,
                 checkTimers, firstBeatTimers, connecting, closing, calls,
                 many, codec>>

\* delay(100) of startCharging has elapsed:
\* writeRegister('CHARGING_RELEASE_EM', 1)
ControlDelayElapses ==
  /\ ctl.pc = "wait"
  /\ ApplyControl(controlStep(
       [ctl EXCEPT !.pc = "release"],
       writeRegister(NewCall([op |-> "write", reg |-> "CHARGING_RELEASE_EM",
                              value |-> 1]), Session)))
  /\ alreadyClosed' = FALSE
  /\ UNCHANGED <<heartbeatInterval, connectionCheckInterval, isOpen,
                 checkTimers, firstBeatTimers, connecting, closing, calls,
                 many, codec>>

(***************************************************************************)
(* Connection lifecycle                                                    *)
(***************************************************************************)
\* the application calls connect(): the call awaits client.connectRTU
AppConnect ==
  /\ ~isConnected
  /\ connecting < MaxConnecting
  /\ connecting' = connecting + 1
  /\ emitted' = <<>>
  /\ UNCHANGED <<isConnected, reconnecting, heartbeatInterval,
                 connectionCheckInterval, isOpen, reconnectTimers, checkTimers, firstBeatTimers, closing, calls>>
  /\ alreadyClosed' = FALSE
  /\ UNCHANGED <<many, codec, ctl>>

\* a reconnect timer fires: its callback calls connect()
ReconnectTimerFires ==
  /\ reconnectTimers > 0
  /\ connecting < MaxConnecting
  /\ reconnectTimers' = reconnectTimers - 1
  /\ connecting' = connecting + 1
  /\ emitted' = <<>>
  /\ UNCHANGED <<isConnected, reconnecting, heartbeatInterval,
                 connectionCheckInterval, isOpen, checkTimers, firstBeatTimers, closing, calls>>
  /\ alreadyClosed' = FALSE
  /\ UNCHANGED <<many, codec, ctl>>

\* variant: a successful connect leaves the reconnecting flag as it is
ConnectSucceeds_keepsFlag ==
  /\ connecting > 0
  /\ checkTimers < MaxCheckTimers
  /\ connecting' = connecting - 1
  /\ isOpen' = TRUE
  /\ isConnected' = TRUE
  /\ emitted' = <<"connected">>
  /\ checkTimers' = checkTimers + 1
  /\ connectionCheckInterval' = TRUE
  /\ UNCHANGED <<heartbeatInterval, reconnectTimers, reconnecting,
                 firstBeatTimers, closing, calls>>
  /\ alreadyClosed' = FALSE
  /\ UNCHANGED <<many, codec, ctl>>

\* connectRTU resolved: the rest of connect()'s try block, with
\* startConnectionMonitoring (a new setInterval whose handle replaces the
\* stored one)
ConnectSucceeds ==
  /\ connecting > 0
  /\ checkTimers < MaxCheckTimers
  /\ connecting' = connecting - 1
  /\ isOpen' = TRUE
  /\ isConnected' = TRUE
  /\ reconnecting' = FALSE
  /\ emitted' = <<"connected">>
  /\ checkTimers' = checkTimers + 1
  /\ connectionCheckInterval' = TRUE
  /\ UNCHANGED <<heartbeatInterval, reconnectTimers,
                 firstBeatTimers, closing, calls>>
  /\ alreadyClosed' = FALSE
  /\ UNCHANGED <<many, codec, ctl>>

\* the session after connect()'s catch block: emit('error') throws when no
\* 'error' listener is registered, and scheduleReconnect is then not reached
connectFailed(s, listener) ==
  LET s1 == [s EXCEPT !.isConnected = FALSE, !.emitted = Append(@, "error")]
  IN  IF listener THEN scheduleReconnect(s1) ELSE s1

\* connectRTU rejected: connect()'s catch block.  The transport's isOpen
\* after a failed open is the library's business: it stays or turns false.
ConnectFails ==
  /\ connecting > 0
  /\ connecting' = connecting - 1
  /\ \E listener \in BOOLEAN :
     LET s == connectFailed(Session, listener)
     IN  /\ s.reconnectTimers <= MaxReconnectTimers
         /\ isConnected' = s.isConnected
         /\ reconnecting' = s.reconnecting
         /\ reconnectTimers' = s.reconnectTimers
         /\ emitted' = s.emitted
  /\ isOpen' \in {isOpen, FALSE}
  /\ UNCHANGED <<heartbeatInterval, connectionCheckInterval, checkTimers, firstBeatTimers, closing, calls>>
  /\ alreadyClosed' = FALSE
  /\ UNCHANGED <<many, codec, ctl>>

\* variant: close() is called whether the handle is open or not
DisconnectStart_alwaysClose ==
  /\ ~closing
  /\ heartbeatInterval' = FALSE
  /\ connectionCheckInterval' = FALSE
  /\ checkTimers' = IF connectionCheckInterval THEN checkTimers - 1 ELSE checkTimers
  /\ closing' = TRUE
  /\ emitted' = <<>>
  /\ UNCHANGED <<isConnected, reconnecting, isOpen, reconnectTimers,
                 firstBeatTimers, connecting, calls>>
  /\ alreadyClosed' = (~isConnected /\ ~isOpen)
  /\ UNCHANGED <<many, codec, ctl>>

\* disconnect() up to its await: stopHeartbeat, stopConnectionMonitoring
\* (clears the stored interval handle only), then close() if the handle is
\* open, else the rest of disconnect()
DisconnectStart ==
  /\ ~closing
  /\ heartbeatInterval' = FALSE
  /\ connectionCheckInterval' = FALSE
  /\ checkTimers' = IF connectionCheckInterval THEN checkTimers - 1 ELSE checkTimers
  /\ IF isOpen
     THEN /\ closing' = TRUE
          /\ emitted' = <<>>
          /\ UNCHANGED isConnected
     ELSE /\ closing' = FALSE
          /\ isConnected' = FALSE
          /\ emitted' = <<"disconnected">>
  /\ UNCHANGED <<reconnecting, isOpen, reconnectTimers,
                 firstBeatTimers, connecting, calls>>
  /\ alreadyClosed' = (~isConnected /\ ~isOpen)
  /\ UNCHANGED <<many, codec, ctl>>

\* client.close() resolved: the rest of disconnect()
CloseReturns ==
  /\ closing
  /\ closing' = FALSE
  /\ isOpen' = FALSE
  /\ isConnected' = FALSE
  /\ emitted' = <<"disconnected">>
  /\ UNCHANGED <<reconnecting, heartbeatInterval, connectionCheckInterval,
                 reconnectTimers, checkTimers, firstBeatTimers,
                 connecting, calls>>
  /\ alreadyClosed' = FALSE
  /\ UNCHANGED <<many, codec, ctl>>

(***************************************************************************)
(* Keep-alive scheduler                                                    *)
(***************************************************************************)
\* startHeartbeat: nothing when already running, otherwise a 2s setTimeout
\* and the 9s setInterval
StartHeartbeat ==
  /\ ~heartbeatInterval
  /\ firstBeatTimers < MaxFirstBeatTimers
  /\ heartbeatInterval' = TRUE
  /\ firstBeatTimers' = firstBeatTimers + 1
  /\ emitted' = <<>>
  /\ UNCHANGED <<isConnected, reconnecting, connectionCheckInterval, isOpen,
                 reconnectTimers, checkTimers, connecting,
                 closing, calls>>
  /\ alreadyClosed' = FALSE
  /\ UNCHANGED <<many, codec, ctl>>

\* stopHeartbeat: clears the interval when one is stored
StopHeartbeat ==
  /\ heartbeatInterval
  /\ heartbeatInterval' = FALSE
  /\ emitted' = <<>>
  /\ UNCHANGED <<isConnected, reconnecting, connectionCheckInterval, isOpen,
                 reconnectTimers, checkTimers, firstBeatTimers,
                 connecting, closing, calls>>
  /\ alreadyClosed' = FALSE
  /\ UNCHANGED <<many, codec, ctl>>

(***************************************************************************)
(* Value codec on its own: a value is encoded, the words are decoded       *)
(***************************************************************************)
\* descriptors of the five numeric types (type and word count)
CodecRegisters ==
  { [type |-> "uint16", length |-> 1], [type |-> "int16", length |-> 1],
    [type |-> "uint32", length |-> 2], [type |-> "int32", length |-> 2],
    [type |-> "float",  length |-> 2] }

\* values representable in the type of the register (32-bit integers as
\* pairs, floats as the non-negative integers they are)
CodecValues(register) ==
  CASE register.type = "uint16" -> {0, 1, 2, 255, 256, 21930, 32767, 32768, 65535}
    [] register.type = "int16"  -> {-32768, -256, -2, -1, 0, 1, 2, 255, 32767}
    [] register.type = "uint32" ->
         { Num(0), Num(1), Num(65535), Num(65536), Num(70000),
           <<32767, 65535>>, <<32768, 0>>, <<65535, 65535>> }
    [] register.type = "int32"  ->
         { <<-32768, 0>>, Num(-65536), Num(-1), Num(0), Num(1), Num(32767),
           Num(32768), Num(40000), Num(65536), <<32767, 65535>> }
    [] register.type = "float"  -> {0, 1, 2, 3, 6, 10, 13, 16, 20, 32, 100, 16777215}

\* values outside the range of the integer type of the register
CodecOutOfRange(register) ==
  CASE register.type = "uint16" -> {-1, 65536, 70000}
    [] register.type = "int16"  -> {-32769, 32768, 65535}
    [] register.type = "uint32" -> { Num(-1), <<65536, 0>>, <<65536, 1>> }
    [] register.type = "int32"  -> { <<-32769, 65535>>, <<32768, 0>>, <<65536, 5>> }
    [] register.type = "float"  -> {}

\* descriptor of a two-word text register (e.g. MODBUS_VERSION)
AsciiRegister == [type |-> "ascii", length |-> 2]

\* words a response may carry for the register (for a float, a pattern with
\* the sign bit clear)
CodecWords(register) ==
  CASE register.length = 1 -> { <<0>>, <<5>>, <<32767>>, <<32768>>, <<65535>> }
    [] register.type = "ascii" ->
         { <<12886, 12590>>, <<16706, 0>>, <<8257, 66>>, <<0, 0>>, <<12800, 32>> }
    [] register.type = "float" ->
         { <<0, 16800>>, <<16800, 0>>, <<0, 0>>, <<16256, 0>>, <<0, 16256>> }
    [] OTHER ->
         { <<0, 0>>, <<1, 0>>, <<0, 1>>, <<32767, 0>>, <<32768, 0>>, <<0, 32767>>,
           <<0, 32768>>, <<65535, 0>>, <<0, 65535>>, <<32768, 32768>>,
           <<65535, 65535>>, <<4464, 1>> }

\* a constructed client whose codec is handed a value to encode or the
\* words of a response to decode
InitCodec ==
  /\ isConnected = FALSE
  /\ reconnecting = FALSE
  /\ heartbeatInterval = FALSE
  /\ connectionCheckInterval = FALSE
  /\ isOpen = FALSE
  /\ reconnectTimers = 0
  /\ checkTimers = 0
  /\ firstBeatTimers = 0
  /\ connecting = 0
  /\ closing = FALSE
  /\ calls = [c \in Callers |-> NoCall]
  /\ emitted = <<>>
  /\ many = NoBatch
  /\ alreadyClosed = FALSE
  /\ ctl = NoControl
  /\ \/ \E register \in CodecRegisters :
          \E value \in CodecValues(register) \cup CodecOutOfRange(register) :
            codec = [NoCodec EXCEPT !.pc = "input", !.register = register,
                                    !.value = value]
     \/ \E register \in CodecRegisters \cup {AsciiRegister} :
          \E words \in CodecWords(register) :
            codec = [NoCodec EXCEPT !.pc = "received", !.register = register,
                                    !.words = words]

\* encodeRegisterValue(register, value): returns the words or throws
Encode ==
  /\ codec.pc = "input"
  /\ codec' = IF CanEncode(codec.register, codec.value)
              THEN [codec EXCEPT !.pc = "encoded",
                                 !.words = encodeRegisterValue(codec.register, codec.value)]
              ELSE [codec EXCEPT !.pc = "threw"]
  /\ UNCHANGED <<isConnected, reconnecting, heartbeatInterval,
                 connectionCheckInterval, isOpen, reconnectTimers, checkTimers,
                 firstBeatTimers, connecting, closing, calls, emitted, many,
                 alreadyClosed, ctl>>

\* parseRegisterValue(register, buffer) of the encoded or received words
Decode ==
  /\ codec.pc \in {"encoded", "received"}
  /\ codec' = [codec EXCEPT !.pc = IF codec.pc = "encoded" THEN "decoded" ELSE "parsed",
                            !.decoded = <<parseRegisterValue(codec.register, codec.words)>>]
  /\ UNCHANGED <<isConnected, reconnecting, heartbeatInterval,
                 connectionCheckInterval, isOpen, reconnectTimers, checkTimers,
                 firstBeatTimers, connecting, closing, calls, emitted, many,
                 alreadyClosed, ctl>>

NextCodec ==
  \/ Encode
  \/ Decode

SpecCodec == InitCodec /\ [][NextCodec]_vars

(***************************************************************************)
(* Specification                                                           *)
(***************************************************************************)
\* the session with the application and the health check as its callers
Next ==
  \/ \E req \in AppRequests : AppCall(req)
  \/ HealthCheckTick
  \/ \E c \in Callers : WireReturns(c)
  \/ \E c \in Callers, e \in WireErrors : WireFails(c, e)
  \/ \E c \in Callers : RetryDelayElapses(c)
  \/ AppConnect
  \/ ReconnectTimerFires
  \/ ConnectSucceeds
  \/ ConnectFails
  \/ DisconnectStart
  \/ CloseReturns

Spec == Init /\ [][Next]_vars

\* the calls of the application and of the health check on a session that
\* connects, loses its connection and reconnects
NextCalls ==
  \/ \E req \in AppRequests : AppCall(req)
  \/ HealthCheckTick
  \/ \E c \in {"app", "hc"} : WireReturns(c)
  \/ \E c \in {"app", "hc"}, e \in WireErrors : WireFails(c, e)
  \/ \E c \in {"app", "hc"} : RetryDelayElapses(c)
  \/ AppConnect
  \/ ReconnectTimerFires
  \/ ConnectSucceeds
  \/ ConnectFails

\* every wire exchange returns or fails (the transport's response timeout),
\* every 500ms retry delay elapses, a pending reconnect timer fires and a
\* connection attempt resolves or rejects; the fairness is strong because the
\* bounds on pending reconnect timers and on connection attempts disable a
\* step that would add one more until a pending one has gone
Fairness ==
  /\ \A c \in {"app", "hc"} :
       SF_vars(WireReturns(c) \/ \E e \in WireErrors : WireFails(c, e))
  /\ \A c \in {"app", "hc"} : SF_vars(RetryDelayElapses(c))
  /\ SF_vars(ReconnectTimerFires)
  /\ SF_vars(ConnectSucceeds \/ ConnectFails)

SpecFair == Init /\ [][NextCalls]_vars /\ Fairness

\* the session with the application and the keep-alive scheduler as its
\* callers (the health-check timers are armed but their ticks are not taken)
NextKeepAlive ==
  \/ \E req \in AppRequests : AppCall(req)
  \/ \E c \in Callers : WireReturns(c)
  \/ \E c \in Callers, e \in WireErrors : WireFails(c, e)
  \/ \E c \in Callers : RetryDelayElapses(c)
  \/ AppConnect
  \/ ReconnectTimerFires
  \/ ConnectSucceeds
  \/ ConnectFails
  \/ DisconnectStart
  \/ CloseReturns
  \/ StartHeartbeat
  \/ StopHeartbeat
  \/ FirstBeatFires
  \/ HeartbeatTick

SpecKeepAlive == Init /\ [][NextKeepAlive]_vars

\* the session with readMultipleRegisters as the application's call
NextReadMany ==
  \/ \E names \in ReadManyInputs : ReadManyCall(names)
  \/ GetDiagnostics
  \/ ManyWireReturns
  \/ \E e \in WireErrors : ManyWireFails(e)
  \/ ManyRetryDelayElapses
  \/ AppConnect
  \/ ReconnectTimerFires
  \/ ConnectSucceeds
  \/ ConnectFails
  \/ DisconnectStart
  \/ CloseReturns

SpecReadMany == Init /\ [][NextReadMany]_vars

\* the session with the RPC client's charging-control requests as its
\* only caller
NextControl ==
  \/ \E method \in RpcMethods, param \in RpcParams : RpcCall(method, param)
  \/ ControlWireReturns
  \/ \E e \in WireErrors : ControlWireFails(e)
  \/ ControlRetryDelayElapses
  \/ ControlDelayElapses
  \/ AppConnect
  \/ ReconnectTimerFires
  \/ ConnectSucceeds
  \/ ConnectFails
  \/ DisconnectStart
  \/ CloseReturns

SpecControl == Init /\ [][NextControl]_vars

TypeOK ==
  /\ isConnected \in BOOLEAN
  /\ reconnecting \in BOOLEAN
  /\ reconnectTimers \in 0..MaxReconnectTimers
  /\ checkTimers \in 0..MaxCheckTimers
  /\ firstBeatTimers \in 0..MaxFirstBeatTimers
  /\ connecting \in 0..MaxConnecting
  /\ \A c \in Callers : calls[c].retry \in 0..MaxRetries

(***************************************************************************)
(* Properties                                                              *)
(***************************************************************************)
\* the callers whose wire operation is in flight
InFlight == {c \in Callers : calls[c].pc = "wire"}

\* the step emitted a connectionLost event
EmittedLost(events) == \E i \in 1..Len(events) : events[i] = "connectionLost"

\* the step is the application invoking readRegister / writeRegister
AppInvokes == ~Busy("app") /\ calls'["app"] # calls["app"]

\* the step left the connection state and the reconnect schedule alone and
\* emitted nothing
ConnectionUntouched ==
  /\ isConnected' = isConnected
  /\ reconnecting' = reconnecting
  /\ reconnectTimers' = reconnectTimers
  /\ emitted' = <<>>

\* ... and dispatched no wire operation
SessionUntouched ==
  /\ ConnectionUntouched
  /\ InFlight' = InFlight

\* C1: in every reachable state at most one wire operation is in flight,
\* whatever the interleaving of application calls and timer ticks.
C1_AtMostOneWireOperation == Cardinality(InFlight) <= 1

\* C2: every reconnect attempt that fails schedules another connect()
\* attempt: after the failure of a connect() made while the reconnecting flag
\* is set, a reconnect timer is pending.
C2_FailedReconnectReschedules ==
  [][ (reconnecting /\ connecting > 0 /\ emitted' = <<"error">>)
        => reconnectTimers' > 0 ]_vars

\* C3: in every reachable state at most one reconnect timer is pending.
C3_AtMostOneReconnectTimer == reconnectTimers <= 1

\* C4: a call invoked on a known, accessible register while the session is
\* not connected fails at once with the not-connected error: it is never
\* found waiting for a retry.
C4_NotConnectedFailsImmediately ==
  \A c \in Callers :
    (calls[c].refused /\ calls[c].retry = 0)
      => /\ calls[c].pc = "failed"
         /\ calls[c].err = "Not connected to Modbus device"

\* C5: readRegister / writeRegister with a name outside the catalog fails
\* with the unknown-register error in the invoking step, with no retry, no
\* wire operation and no change of the connection state.
C5_UnknownRegisterFailsFast ==
  [][ (AppInvokes /\ calls'["app"].reg \notin DOMAIN REGISTERS)
        => /\ calls'["app"].pc = "failed"
           /\ calls'["app"].err = "Unknown register"
           /\ calls'["app"].retry = 0
           /\ SessionUntouched ]_vars

C5_Witness ==
  /\ calls["app"].reg = "NO_SUCH_REGISTER"
  /\ calls["app"].pc = "failed"
  /\ isConnected

\* the register of the call does not grant the access the operation needs
AccessDenied(call) ==
  /\ call.reg \in DOMAIN REGISTERS
  /\ \/ call.op = "read" /\ REGISTERS[call.reg].access = "W"
     \/ call.op = "write" /\ REGISTERS[call.reg].access = "R"

\* C6: readRegister on a register without read access and writeRegister on
\* a register without write access fail with the access error in the
\* invoking step, with no retry, no wire operation and no change of the
\* connection state.
C6_AccessViolationFailsFast ==
  [][ (AppInvokes /\ AccessDenied(calls'["app"]))
        => /\ calls'["app"].pc = "failed"
           /\ calls'["app"].err =
                (IF calls'["app"].op = "read" THEN "not readable" ELSE "not writable")
           /\ calls'["app"].retry = 0
           /\ SessionUntouched ]_vars

C6_Witness ==
  /\ calls["app"].reg = "HEARTBEAT_EM"
  /\ calls["app"].op = "read"
  /\ calls["app"].pc = "failed"
  /\ isConnected

C8_TimeoutExhaustionReconnects ==
  [][ ( /\ WireFails("app", "Timed Out")
        /\ calls["app"].op = "read"
        /\ calls["app"].retry = MaxRetries
        /\ ~calls["app"].refused )
        => /\ ~isConnected'
           /\ EmittedLost(emitted')
           /\ calls'["app"].pc = "failed"
           /\ (reconnectTimers' > 0 \/ connecting' > 0) ]_vars

\* C9: a readRegister call whose every attempt reached the wire returns, on
\* the attempt that succeeds, the decoded words of that response after as
\* many failed attempts as its retry counter tells; neither a failed attempt
\* that is retried nor the successful one changes the connection state or
\* emits an event.
C9_RetryThenSuccess ==
  [][ /\ (calls["app"].pc = "wire" /\ calls["app"].op = "read" /\ ~calls["app"].refused)
         => /\ calls'["app"].pc = "ok"
               => /\ calls'["app"].resp \in ReadData(REGISTERS[calls["app"].reg].length)
                  /\ calls'["app"].result =
                       <<parseRegisterValue(REGISTERS[calls["app"].reg], calls'["app"].resp)>>
                  /\ calls'["app"].retry = calls["app"].retry
                  /\ ~calls'["app"].lost
                  /\ isConnected' = isConnected
                  /\ emitted' = <<>>
            /\ calls'["app"].pc = "delay"
               => /\ calls'["app"].retry = calls["app"].retry
                  /\ calls["app"].retry < MaxRetries
                  /\ isConnected' = isConnected
                  /\ emitted' = <<>>
      /\ (calls["app"].pc = "delay" /\ calls'["app"].pc # "delay")
         => calls'["app"].retry = calls["app"].retry + 1 ]_vars

C9_Witness ==
  /\ calls["app"].pc = "ok"
  /\ calls["app"].op = "read"
  /\ calls["app"].retry = MaxRetries - 1
  /\ ~calls["app"].refused
  /\ isConnected

\* C10: a call that has run out of retries throws the error raised in its
\* last attempt.
C10_LastErrorSurfaced ==
  \A c \in Callers :
    (calls[c].pc = "failed" /\ calls[c].retry = MaxRetries /\ calls[c].lastErr # "none")
      => calls[c].err = calls[c].lastErr

C10_Witness ==
  /\ calls["app"].pc = "failed"
  /\ calls["app"].retry = MaxRetries
  /\ calls["app"].lastErr = "CRC error"

\* C11: readMultipleRegisters never throws; when it returns, every name of
\* the list has been read, in order, the results object has exactly the
\* requested names as its keys, and the entry of a name holds the decoded
\* response of its (last) read when that read returned and null when it
\* failed.
C11_ReadManyNeverFails ==
  /\ many.pc # "threw"
  /\ many.pc = "done" =>
       /\ Len(many.reads) = Len(many.names)
       /\ DOMAIN many.results = {many.names[i] : i \in 1..Len(many.names)}
       /\ \A i \in 1..Len(many.names) :
            /\ many.reads[i].name = many.names[i]
            /\ many.reads[i].ok =>
                 /\ HasRegister(many.names[i])
                 /\ AccessIncludes(REGISTERS[many.names[i]].access, "R")
            /\ (\A j \in (i + 1)..Len(many.names) : many.names[j] # many.names[i])
                 => many.results[many.names[i]] =
                      (IF many.reads[i].ok
                       THEN <<parseRegisterValue(REGISTERS[many.names[i]],
                                                 many.reads[i].resp)>>
                       ELSE null)

C11_Witness ==
  /\ many.pc = "done"
  /\ many.names = <<"NO_SUCH_REGISTER", "EVSE_STATE">>
  /\ many.results["NO_SUCH_REGISTER"] = null
  /\ many.results["EVSE_STATE"] = <<5>>

\* the step completes a disconnect() call
DisconnectCompletes == emitted' = <<"disconnected">>

\* C12: when disconnect() completes, no health-check timer and no recurring
\* keep-alive timer is armed, the handle is closed and the session is
\* disconnected (the completing step emits the one disconnected event).
C12_DisconnectStopsTimers ==
  [][ DisconnectCompletes
        => /\ checkTimers' = 0
           /\ ~heartbeatInterval'
           /\ ~isOpen'
           /\ ~isConnected' ]_vars

\* C13: disconnect() on a session that is disconnected with its handle
\* closed completes without calling close(), and leaves the connection
\* state, the reconnecting flag, the reconnect and first-beat timers, the
\* calls and, when the interval handles were already cleared, the
\* health-check timers as they were.
C13_DisconnectIdempotent ==
  [][ alreadyClosed'
        => /\ ~closing'
           /\ emitted' = <<"disconnected">>
           /\ ~isOpen'
           /\ ~isConnected'
           /\ ~heartbeatInterval'
           /\ ~connectionCheckInterval'
           /\ UNCHANGED <<reconnecting, reconnectTimers, firstBeatTimers,
                          connecting, calls, many>>
           /\ (~heartbeatInterval /\ ~connectionCheckInterval)
                => UNCHANGED checkTimers ]_vars

C13_Witness ==
  /\ alreadyClosed
  /\ emitted = <<"disconnected">>
  /\ reconnecting
  /\ reconnectTimers = 1
  /\ ~isOpen
  /\ ~isConnected

\* C14: when disconnect() completes, no reconnect timer and no first-beat
\* timer of the keep-alive is pending.
C14_DisconnectCancelsPending ==
  [][ DisconnectCompletes
        => /\ reconnectTimers' = 0
           /\ firstBeatTimers' = 0 ]_vars

\* C15: while the keep-alive scheduler is stopped, no keep-alive write is
\* dispatched.
C15_StoppedSchedulerIsSilent ==
  [][ (~heartbeatInterval /\ calls["hb"].pc = "idle")
        => calls'["hb"].pc # "wire" ]_vars

\* the step in which the keep-alive write of the running tick fails
HeartbeatFails ==
  \/ \E e \in WireErrors : WireFails("hb", e) /\ calls["hb"].retry = MaxRetries
  \/ /\ RetryDelayElapses("hb")
     /\ ~isConnected
     /\ calls["hb"].retry + 1 = MaxRetries

\* C16: a keep-alive write that fails, at the wire or because the session
\* is not connected, throws nothing out of the tick: the tick is over, and
\* the recurring timer and the scheduler flag are as they were, so the next
\* tick is taken.
C16_FailedBeatIsSwallowed ==
  [][ HeartbeatFails
        => /\ calls'["hb"] = NoCall
           /\ heartbeatInterval' = heartbeatInterval
           /\ firstBeatTimers' = firstBeatTimers ]_vars

C16_Witness ==
  /\ emitted = <<"connectionLost">>
  /\ calls["app"] = NoCall
  /\ calls["hb"] = NoCall
  /\ heartbeatInterval
  /\ firstBeatTimers = 0
  /\ ~isConnected

\* C17: the step in which the session is marked disconnected by the
\* connection-lost path leaves no recurring keep-alive timer armed.
C17_LossStopsKeepAlive ==
  [][ (isConnected /\ ~isConnected' /\ EmittedLost(emitted'))
        => ~heartbeatInterval' ]_vars

\* the step ends a connect() call
ConnectEnds == connecting' = connecting - 1

\* C18: a connect() whose open fails leaves the session not connected,
\* emits error and arms a reconnect timer.
C18_FailedConnectSchedulesReconnect ==
  [][ (ConnectEnds /\ emitted' = <<"error">>)
        => /\ ~isConnected'
           /\ reconnecting'
           /\ reconnectTimers' = reconnectTimers + 1 ]_vars

\* C19: a connect() whose open succeeds leaves the session connected with
\* the reconnecting flag cleared, emits exactly the connected event, and
\* arms a health-check timer whose handle it stores.
C19_ConnectSucceeds ==
  [][ (ConnectEnds /\ emitted' # <<"error">>)
        => /\ isConnected'
           /\ ~reconnecting'
           /\ emitted' = <<"connected">>
           /\ checkTimers' = checkTimers + 1
           /\ connectionCheckInterval' ]_vars

C19_Witness ==
  /\ emitted = <<"connected">>
  /\ isConnected
  /\ ~reconnecting
  /\ reconnectTimers = 0
  /\ connectionCheckInterval
  /\ checkTimers = 2

\* what decoding must give back for the value v: v itself, for a float the
\* 32-bit pattern of v
RoundTripValue(register, v) ==
  IF register.type = "float" THEN FloatBits(v) ELSE v

\* the value is in the range of the type of the register
Representable(register, v) ==
  CASE register.type = "uint16" -> v \in 0..65535
    [] register.type = "int16"  -> v \in -32768..32767
    [] register.type = "uint32" -> v[1] \in 0..65535
    [] register.type = "int32"  -> v[1] \in -32768..32767
    [] register.type = "float"  -> TRUE

\* the codec was handed a value (and not the words of a response)
Encoding == codec.pc \in {"input", "encoded", "decoded", "threw"}

\* C20: for every value representable in its type, encoding does not throw
\* and decoding the encoded words gives the value back.
C20_RoundTrip ==
  (Encoding /\ Representable(codec.register, codec.value))
    => /\ codec.pc # "threw"
       /\ codec.pc = "decoded"
            => codec.decoded = <<RoundTripValue(codec.register, codec.value)>>

\* the codec has decoded the words of a response for a register of type ty
Parsed(ty) == codec.pc = "parsed" /\ codec.register.type = ty

\* C21: the response words [0x0000, 0x41A0] of a float register decode to
\* 20.0, the float of pattern 0x41A00000.
C21_FloatLowWordFirst ==
  (Parsed("float") /\ codec.words = <<0, 16800>>)
    => codec.decoded = <<FloatBits(20)>>

\* the text V1.
TextV1 == <<86, 49, 46>>

\* the text V2.1
TextV21 == <<86, 50, 46, 49>>

\* C22 as claimed: the ascii words [0x3256, 0x312E] decode to "V1.".
C22_AsciiDecodesToV1 ==
  (Parsed("ascii") /\ codec.words = <<12886, 12590>>)
    => codec.decoded = <<TextV1>>

\* C22 amended: the ascii words [0x3256, 0x312E], the two bytes of each word
\* swapped, null bytes removed and the result trimmed, decode to "V2.1".
C22_AsciiDecodesToV21 ==
  (Parsed("ascii") /\ codec.words = <<12886, 12590>>)
    => codec.decoded = <<TextV21>>

C22_Witness ==
  /\ Parsed("ascii")
  /\ codec.words = <<12886, 12590>>
  /\ codec.decoded = <<TextV21>>

C26_Uint32IsUnsigned ==
  Parsed("uint32") => codec.decoded = << <<codec.words[2], codec.words[1]>> >>

\* C27: the response words [lo, hi] of an int32 register decode to the
\* two's-complement value of the pattern hi * 65536 + lo.
C27_Int32TwosComplement ==
  Parsed("int32")
    => codec.decoded =
         << <<IF codec.words[2] >= 32768 THEN codec.words[2] - 65536
              ELSE codec.words[2],
              codec.words[1]>> >>

\* C24: the retry counter of a call never exceeds maxRetries (a call makes
\* at most maxRetries + 1 attempts), and every call that is awaiting the
\* wire or a retry delay completes, with a value or a failure.
C24_CallsTerminate ==
  /\ [](\A c \in Callers : calls[c].retry <= MaxRetries)
  /\ \A c \in Callers : Busy(c) ~> ~Busy(c)

C24_Witness ==
  /\ calls["app"].pc = "failed"
  /\ calls["app"].retry = MaxRetries
  /\ ~calls["app"].refused
  /\ calls["app"].lastErr = "CRC error"
  /\ isConnected

\* C28: readMultipleRegisters reads one name at a time in list order: while
\* the loop awaits the wire or a retry delay, the read in progress is the one
\* of names[idx] and the reads of exactly the names before it have completed
\* or failed, in list order; when the loop has ended, every name of the list
\* has been read, in list order.
C28_ReadsAreSequential ==
  /\ Len(many.reads) <= Len(many.names)
  /\ \A i \in 1..Len(many.reads) : many.reads[i].name = many.names[i]
  /\ many.pc = "running" =>
       /\ many.idx \in 1..Len(many.names)
       /\ many.call.pc \in {"wire", "delay"}
       /\ many.call.reg = many.names[many.idx]
       /\ Len(many.reads) = many.idx - 1
  /\ many.pc = "done" =>
       /\ many.call = NoCall
       /\ Len(many.reads) = Len(many.names)

C28_Witness ==
  /\ many.pc = "running"
  /\ many.names = <<"EVSE_STATE", "CHARGING_CURRENT_EM">>
  /\ many.idx = 2
  /\ many.call.pc = "wire"
  /\ many.call.retry = 1
  /\ many.reads = <<[name |-> "EVSE_STATE", ok |-> FALSE, resp |-> <<>>]>>

\* C29: disconnect() invokes close on the handle only when no wire exchange
\* is in flight: an exchange dispatched before disconnect() was called has
\* returned or failed before close is invoked.
C29_CloseWaitsForExchange ==
  [][(~closing /\ closing') => InFlight = {}]_vars

\* the step is the one in which the health check's read fails: its last
\* attempt fails at the wire or is refused after the retry delay
HealthCheckFails ==
  /\ Busy("hc")
  /\ calls'["hc"] = NoCall
  /\ \/ \E e \in WireErrors : WireFails("hc", e)
     \/ RetryDelayElapses("hc")

OutOfRange(v) ==
  /\ ToNumber(v) # NaN
  /\ (ToNumber(v) < MIN_CHARGING_CURRENT \/ ToNumber(v) > MAX_CHARGING_CURRENT)

\* C25: a request whose current lies below 6 or above 32 fails before any
\* write is handed to the transport; setChargingCurrent (and resumeCharging)
\* write to CHARGING_CURRENT_EM only; and no request of setChargingCurrent,
\* startCharging or resumeCharging hands the transport a CHARGING_CURRENT_EM
\* value outside 6..32.
C25_CurrentWithinRange ==
  /\ (ctl.method # "none" /\ OutOfRange(ctl.current))
       => (ctl.pc = "failed" /\ ctl.wrote = <<>>)
  /\ ctl.method \in {"setChargingCurrent", "resumeCharging"}
       => \A i \in 1..Len(ctl.wrote) : ctl.wrote[i].reg = "CHARGING_CURRENT_EM"
  /\ \A i \in 1..Len(ctl.wrote) :
       ctl.wrote[i].reg = "CHARGING_CURRENT_EM"
         => ctl.wrote[i].value \in MIN_CHARGING_CURRENT..MAX_CHARGING_CURRENT

\* C36: in every reachable state at most one health-check timer is armed.
C36_AtMostOneCheckTimer == checkTimers <= 1

\* the step dispatches a wire operation of caller c
Dispatches(c) == calls'[c].pc = "wire" /\ calls'[c] # calls[c]

\* C37: every step that dispatches a wire operation, for an application
\* call, a retry, a health-check tick or a keep-alive tick, starts in a state
\* where isConnected is true (and leaves it true).
C37_DispatchOnlyWhenConnected ==
  [][\A c \in Callers : Dispatches(c) => (isConnected /\ isConnected')]_vars

C37_Witness ==
  /\ calls["hb"].pc = "wire"
  /\ calls["app"].pc = "wire"
  /\ calls["app"].retry = 1
  /\ isConnected

\* the step invokes connect(): connectRTU is called on the handle
ConnectInvoked == connecting' > connecting

\* C38: connect() is invoked only while the handle is closed and the session
\* is not connected.
C38_ConnectOnlyWhenClosed ==
  [][ConnectInvoked => (~isOpen /\ ~isConnected)]_vars

\* C39: while the reconnecting flag is set a reconnect timer is pending or a
\* connect() attempt is in progress, and the flag is never set while the
\* session is connected.
C39_ReconnectingMeansScheduled ==
  /\ reconnecting => (reconnectTimers > 0 \/ connecting > 0)
  /\ ~(reconnecting /\ isConnected)

\* the number of connectionLost events among the events of a step
RECURSIVE CountLost(_)
CountLost(events) ==
  IF events = <<>> THEN 0
  ELSE (IF Head(events) = "connectionLost" THEN 1 ELSE 0) + CountLost(Tail(events))

\* C40: a step emits connectionLost at most once, and only when the session
\* was connected before the step: no connectionLost event is emitted while
\* the session is already disconnected.
C40_LossReportedOnce ==
  [][EmittedLost(emitted') => (isConnected /\ CountLost(emitted') = 1)]_vars

\* C35: a write whose value cannot be encoded fails in the step that invokes
\* it, without a retry delay: the failure of the codec is not retried.
C35_CodecFailureNotRetried ==
  [][ ( /\ AppInvokes
        /\ isConnected
        /\ calls'["app"].op = "write"
        /\ HasRegister(calls'["app"].reg)
        /\ AccessIncludes(REGISTERS[calls'["app"].reg].access, "W")
        /\ ~CanEncode(REGISTERS[calls'["app"].reg], calls'["app"].value) )
        => /\ calls'["app"].pc = "failed"
           /\ calls'["app"].retry = 0 ]_vars

\* the object getDiagnostics has returned
Diagnostics == many.returned[1]

\* C34: a controller aggregate method reports no definite derived value for
\* a register whose read failed: in the object getDiagnostics returns, the
\* fields computed from a failed read are absent.
C34_NoValueFromFailedRead ==
  (many.pc = "done" /\ many.method = "getDiagnostics")
    => /\ many.results["ACTIVE_ERROR_CODE"] = null
            => (Diagnostics.activeErrorCode = null /\ Diagnostics.hasError = null)
       /\ many.results["MASTER_LOST_FALLBACK_STATE"] = null
            => Diagnostics.masterLostFallback = null
       /\ many.results["SWITCHED_PHASES"] = null
            => Diagnostics.switchedPhases = null
       /\ many.results["TEMPERATURE"] = null
            => Diagnostics.temperature = null

\* the words of a multi-word value in low-word-first order: word 0 holds
\* the low 16 bits of the 32-bit pattern
LowWordFirst(register, value) ==
  IF register.type = "float"
  THEN <<FloatBits(value) % Pow2(16), FloatBits(value) \div Pow2(16)>>
  ELSE <<JsLow16(value), JsShr16Low(value)>>

\* C31: a write on the wire targets the descriptor's address and is the
\* single-register write of the one encoded word when the register has one
\* word, and the multi-register write of all words in low-word-first order
\* when it has more.
C31_WriteKindByWordCount ==
  \A c \in Callers :
    (calls[c].pc = "wire" /\ calls[c].op = "write")
      => LET register == REGISTERS[calls[c].reg]
             wire     == calls[c].wire
         IN  /\ wire.address = register.address
             /\ register.length = 1
                  => /\ wire.fn = "writeRegister"
                     /\ wire.data = encodeRegisterValue(register, calls[c].value)
             /\ register.length > 1
                  => /\ wire.fn = "writeRegisters"
                     /\ wire.data = LowWordFirst(register, calls[c].value)

\* the step is a keep-alive tick: the 2s timeout or the 9s interval fires
KeepAliveTick == HeartbeatTick \/ FirstBeatFires

\* the write every keep-alive dispatches: writeRegister(0x0D00, 0x55AA)
KeepAliveWrite == [fn |-> "writeRegister", address |-> 3328, data |-> <<21930>>]

\* C32: startHeartbeat dispatches nothing itself and arms the 2s timeout of
\* the first keep-alive and the 9s interval of the following ones, a period
\* strictly shorter than the device's 10s window; every keep-alive tick on a
\* connected session dispatches one write, and every keep-alive write is the
\* single-register write of 0x55AA to address 0x0D00.
C32_KeepAliveCadenceAndPayload ==
  [][ /\ FirstBeatDelay = 2000
      /\ HeartbeatPeriod = 9000
      /\ HeartbeatPeriod < HEARTBEAT_INTERVAL
      /\ StartHeartbeat
           => (calls' = calls /\ firstBeatTimers' = firstBeatTimers + 1
               /\ heartbeatInterval')
      /\ (KeepAliveTick /\ isConnected)
           => (calls'["hb"].pc = "wire" /\ calls'["hb"].retry = 0)
      /\ Dispatches("hb") => calls'["hb"].wire = KeepAliveWrite ]_vars

C32_Witness ==
  /\ calls["hb"].pc = "wire"
  /\ calls["hb"].retry = 1
  /\ heartbeatInterval
  /\ firstBeatTimers = 0
  /\ isConnected

\* the request has handed a write of the register to the transport
Wrote(reg) == \E i \in 1..Len(ctl.wrote) : ctl.wrote[i].reg = reg

\* C33: startCharging hands a write of CHARGING_RELEASE_EM to the transport
\* only after its write of CHARGING_CURRENT_EM has returned, and only for a
\* current within 6..32; the value written is 1; no other method of the
\* three writes CHARGING_RELEASE_EM.
C33_ReleaseAfterCurrent ==
  Wrote("CHARGING_RELEASE_EM")
    => /\ ctl.method = "startCharging"
       /\ ctl.acked # <<>>
       /\ ctl.acked[1] = "CHARGING_CURRENT_EM"
       /\ ctl.wrote[1].reg = "CHARGING_CURRENT_EM"
       /\ ToNumber(ctl.current) \in MIN_CHARGING_CURRENT..MAX_CHARGING_CURRENT
       /\ \A i \in 1..Len(ctl.wrote) :
            ctl.wrote[i].reg = "CHARGING_RELEASE_EM" => ctl.wrote[i].value = 1

====
